---- MODULE Spec2Model ----
(***************************************************************************)
(* diffgen (src/src/diffgen/__init__.py): a directory tree is scanned into *)
(* FileInfo records (name, mtime, size, md5); `generate` stores them in an *)
(* UnQLite database, `diff` re-scans the tree and writes the paths of the  *)
(* records that are new or changed with respect to the database.           *)
(*                                                                         *)
(* The file system is part of the state.  It changes only between two      *)
(* commands (the Edit actions), never while a command runs.  The database  *)
(* file and the report file lie outside the scanned tree.                  *)
(***************************************************************************)
EXTENDS Integers, Sequences, FiniteSets, TLC

\* ------------------------------------------------------------------ bounds
\* --depth ranges over 0..MaxDepth
MaxDepth == 2
\* sizes, mtimes and file contents range over 0..MaxVal
MaxVal == 1
\* number of file-system changes made around the two commands
MaxEdits == 1

Vals == 0..MaxVal

\* --process: 0 (hash inline) or a number of worker processes
ProcessOptions == {0, 2}

\* ------------------------------------------------------- the scanned tree
\* Paths are sequences of components; Root is args.sourcepath.
Root == <<"r">>

FileA == <<"r", "a">>
DirD  == <<"r", "d">>
Link  == <<"r", "l">>
FileN == <<"r", "n">>
FileZ == <<"r", "z">>
FileB == <<"r", "d", "b">>

Entries == {Root, FileA, DirD, Link, FileN, FileZ, FileB}
Files   == {FileA, FileN, FileZ, FileB}

\* What the entry is when it exists: a regular file, a directory, or
\* something else (socket, device, dangling link).
Kind(p) ==
  IF p \in Files THEN "file"
  ELSE IF p \in {Root, DirD} THEN "dir"
  ELSE "other"

\* The order in which the operating system lists a directory.
ChildNames(p) ==
  IF p = Root THEN <<"a", "d", "l", "n", "z">>
  ELSE IF p = DirD THEN <<"b">>
  ELSE <<>>

\* present: the entry exists.  fault: "ok"; "classify" (stat of the entry
\* is refused, so is_file()/is_dir()/stat() raise); "read" (the entry can
\* be stat'ed but not opened: open() of a file, listing of a directory).
Faults == {"ok", "classify", "read"}

\* --ignore: nothing, or the two patterns "n" and "d/*"
IgnoreOptions == { <<>>, << <<"n">>, <<"d", "*">> >> }

VARIABLES
  fs,                \* Entries -> [present, size, mtime, content, fault]
  depth,             \* args.depth
  ignored_patterns,  \* args.ignore
  process,           \* args.process
  poolBound,         \* whether the global name Pool is bound in the module
  cmd,               \* "none", "generate", "diff": the last command started
  pc,                \* position of that command
  idx,               \* records the consumer has pulled from the listing
  db,                \* the UnQLite file: [corrupt, data], data the committed
                     \* key -> value mapping (empty when there is no file)
  txn,               \* writes of the open transaction, not yet committed
  report,            \* the report file: [exists, lines]
  edits,             \* file-system changes made so far
  modified,          \* the tree changed since generate started
  genDone            \* generate ran to completion

vars == <<fs, depth, ignored_patterns, process, poolBound, cmd, pc, idx,
          db, txn, report, edits, modified, genDone>>

\* ---------------------------------------------------------------- FileInfo
\* hashlib's hexdigest of a file's content.
hexdigest(content) == <<"md5", content>>

\* pool.apply_async(...): an AsyncResult holding the job's outcome, which
\* only .get() would turn into the digest (or into the job's exception).
apply_async(job) ==
  <<"AsyncResult", IF job.raised THEN -1 ELSE job.value[2]>>

\* FileInfo.get_md5: open the file and hash its blocks.
get_md5(file) ==
  IF fs[file].fault # "ok" \/ ~fs[file].present
  THEN [raised |-> TRUE, value |-> <<"md5", -1>>]
  ELSE [raised |-> FALSE, value |-> hexdigest(fs[file].content)]

\* file.relative_to(root).as_posix()
relative_to(file, root) == SubSeq(file, Len(root) + 1, Len(file))

\* FileInfo.__init__(file, root, pool)
FileInfo(file, root, pool) ==
  IF fs[file].fault = "classify" \/ ~fs[file].present
  THEN [raised |-> TRUE, info |-> <<>>]
  ELSE LET job == get_md5(file)
           base == [name  |-> relative_to(file, root),
                    mtime |-> fs[file].mtime,
                    size  |-> fs[file].size]
       IN IF pool
          THEN [raised |-> FALSE,
                info |-> [name |-> base.name, mtime |-> base.mtime,
                          size |-> base.size, md5 |-> apply_async(job)]]
          ELSE IF job.raised
               THEN [raised |-> TRUE, info |-> <<>>]
               ELSE [raised |-> FALSE,
                     info |-> [name |-> base.name, mtime |-> base.mtime,
                               size |-> base.size, md5 |-> job.value]]

\* ----------------------------------------------------- generate_dir_listing
\* fnmatch of one path component against one pattern component.
fnmatch(name, pat) == pat = "*" \/ pat = name

\* PurePath.match with a relative pattern: matched from the right.
match(f, pattern) ==
  /\ Len(pattern) <= Len(f)
  /\ \A i \in 1..Len(pattern) :
       fnmatch(f[Len(f) - Len(pattern) + i], pattern[i])

\* any([f.match(pattern) for pattern in ignored_patterns])
ignored(f) ==
  \E i \in 1..Len(ignored_patterns) : match(f, ignored_patterns[i])

\* path.iterdir(): the existing children, or an error.
iterdir(path) ==
  IF ~fs[path].present \/ fs[path].fault # "ok" \/ Kind(path) # "dir"
  THEN [raised |-> TRUE, entries |-> <<>>]
  ELSE LET names == ChildNames(path)
           all == [i \in 1..Len(names) |-> Append(path, names[i])]
       IN [raised |-> FALSE,
           entries |-> SelectSeq(all, LAMBDA f : fs[f].present)]

RECURSIVE process_dir(_, _, _)
RECURSIVE process_entries(_, _, _, _)

\* The faulty loop of a directory scan: the try wraps the whole for loop, so
\* the first error ends the scan of the directory.
process_entries_abort(entries, i, current_depth, pool) ==
  IF i > Len(entries) THEN <<>>
  ELSE
    LET f == entries[i]
        rest == process_entries(entries, i + 1, current_depth, pool)
    IN IF ignored(f) THEN rest
       ELSE IF fs[f].fault = "classify" THEN <<>>
       ELSE IF Kind(f) = "file"
            THEN LET r == FileInfo(f, Root, pool)
                 IN IF r.raised THEN <<>> ELSE <<r.info>> \o rest
       ELSE IF Kind(f) = "dir"
            THEN LET sub == process_dir(f, current_depth + 1, pool)
                 IN IF sub.raised THEN sub.recs ELSE sub.recs \o rest
       ELSE rest

\* The for loop of process_dir over entries[i..]: the records it yields.
\* Every exception raised in the body is caught and the loop continues.
process_entries(entries, i, current_depth, pool) ==
  IF i > Len(entries) THEN <<>>
  ELSE
    LET f == entries[i]
        rest == process_entries(entries, i + 1, current_depth, pool)
    IN IF ignored(f) THEN rest
       ELSE IF fs[f].fault = "classify" THEN rest
       ELSE IF Kind(f) = "file"
            THEN LET r == FileInfo(f, Root, pool)
                 IN IF r.raised THEN rest ELSE <<r.info>> \o rest
       ELSE IF Kind(f) = "dir"
            THEN process_dir(f, current_depth + 1, pool).recs \o rest
       ELSE rest

\* process_dir(path, depth, current_depth): the records it yields and
\* whether it ends by raising (only the listing of path is outside the try).
process_dir(path, current_depth, pool) ==
  IF current_depth >= depth
  THEN [raised |-> FALSE, recs |-> <<>>]
  ELSE LET it == iterdir(path)
       IN IF it.raised
          THEN [raised |-> TRUE, recs |-> <<>>]
          ELSE [raised |-> FALSE,
                recs |-> process_entries(it.entries, 1, current_depth, pool)]

\* generate_dir_listing(root, depth, pool, ignored_patterns)
generate_dir_listing(pool) == process_dir(Root, 0, pool)

\* The pool argument the running command passes.
UsesPool == process # 0

Listing == generate_dir_listing(UsesPool)

\* ------------------------------------------------------------------- JSON
\* json.dumps(info.__dict__): the four attributes in the order __init__ set
\* them.  An AsyncResult is not JSON serializable: TypeError.
json_dumps(info) ==
  IF info.md5[1] = "AsyncResult"
  THEN [raised |-> TRUE, text |-> <<>>]
  ELSE [raised |-> FALSE,
        text |-> << <<"name", info.name>>, <<"mtime", info.mtime>>,
                    <<"size", info.size>>, <<"md5", info.md5>> >>]

\* json.loads(text): the dict of the object's members.
json_loads(text) ==
  [k \in {text[i][1] : i \in 1..Len(text)} |->
     text[CHOOSE i \in 1..Len(text) : text[i][1] = k][2]]

\* ----------------------------------------------------------------- get_diff
\* The faulty comparison: a record is reported when any field differs, and a
\* record the database does not have is dropped.
get_diff_item_drop_new(info, data) ==
  IF info.name \in DOMAIN data
  THEN LET dbinfo == json_loads(data[info.name])
       IN IF \/ info.size # dbinfo["size"]
             \/ info.mtime # dbinfo["mtime"]
             \/ info.md5 # dbinfo["md5"]
          THEN <<info>> ELSE <<>>
  ELSE <<>>

\* The faulty comparison: == in place of !=.
get_diff_item_inverted(info, data) ==
  IF info.name \in DOMAIN data
  THEN LET dbinfo == json_loads(data[info.name])
       IN IF /\ info.size = dbinfo["size"]
             /\ info.mtime = dbinfo["mtime"]
             /\ info.md5 = dbinfo["md5"]
          THEN <<info>> ELSE <<>>
  ELSE <<info>>

\* The body of get_diff's loop for one fresh record: what it yields.
get_diff_item(info, data) ==
  IF info.name \in DOMAIN data
  THEN LET dbinfo == json_loads(data[info.name])
       IN IF /\ info.size # dbinfo["size"]
             /\ info.mtime # dbinfo["mtime"]
             /\ info.md5 # dbinfo["md5"]
          THEN <<info>> ELSE <<>>
  ELSE <<info>>

\* dump_diff's lambda: (root / x.name).as_posix()
report_line(x) == Root \o x.name

\* The faulty writer: the newest line goes first.
writelines_front(lines, diff) ==
  [i \in 1..Len(diff) |-> report_line(diff[i])] \o lines

\* f.writelines(...) of the records pulled so far
writelines(lines, diff) ==
  lines \o [i \in 1..Len(diff) |-> report_line(diff[i])]

\* ---------------------------------------------------------------- the state
EmptyStore == << >>

Stopped == {"idle", "done", "failed", "crashed"}

InitialFs ==
  [p \in Entries |->
     [present |-> p # FileZ, size |-> 0, mtime |-> 0, content |-> 0,
      fault |-> "ok"]]

Init ==
  /\ fs = InitialFs
  /\ depth \in 0..MaxDepth
  /\ ignored_patterns \in IgnoreOptions
  /\ process \in ProcessOptions
  /\ poolBound \in IF process = 0 THEN {FALSE} ELSE BOOLEAN
  /\ cmd = "none"
  /\ pc = "idle"
  /\ idx = 0
  /\ db = [corrupt |-> FALSE, data |-> EmptyStore]
  /\ txn = EmptyStore
  /\ report = [exists |-> FALSE, lines |-> <<>>]
  /\ edits = 0
  /\ modified = FALSE
  /\ genDone = FALSE

\* ------------------------------------------- changes of the file system
CanEdit == pc \in Stopped /\ cmd # "diff" /\ edits < MaxEdits

Edited(new) ==
  /\ fs' = new
  /\ edits' = edits + 1
  /\ modified' = TRUE
  /\ UNCHANGED <<depth, ignored_patterns, process, poolBound, cmd, pc, idx,
                 db, txn, report, genDone>>

\* Another value of a size, an mtime or a content.
Other(v) == (v + 1) % (MaxVal + 1)

\* A file is rewritten or touched: the content changes (dc), with or without
\* the size (ds) and the mtime (dm: a writer may restore it), or the mtime
\* alone changes.  The size never changes without the content.
EditWrite ==
  /\ CanEdit
  /\ \E p \in Files, ds \in BOOLEAN, dm \in BOOLEAN, dc \in BOOLEAN :
       /\ fs[p].present
       /\ dm \/ dc
       /\ ds => dc
       /\ Edited([fs EXCEPT
            ![p].size = IF ds THEN Other(@) ELSE @,
            ![p].mtime = IF dm THEN Other(@) ELSE @,
            ![p].content = IF dc THEN Other(@) ELSE @])

\* A file is created.
EditCreate ==
  /\ CanEdit
  /\ \E p \in Files, v \in Vals :
       /\ ~fs[p].present
       /\ Edited([fs EXCEPT ![p] = [present |-> TRUE, size |-> v, mtime |-> v,
                                    content |-> v, fault |-> "ok"]])

\* A file is renamed to a name that is free in the same directory.
EditRename ==
  /\ CanEdit
  /\ \E p \in Files, q \in Files :
       /\ fs[p].present /\ ~fs[q].present
       /\ Len(p) = Len(q)
       /\ Edited([fs EXCEPT ![q] = fs[p],
                            ![p] = [present |-> FALSE, size |-> 0, mtime |-> 0,
                                    content |-> 0, fault |-> "ok"]])

\* A file or the sub-directory is removed.
EditRemove ==
  /\ CanEdit
  /\ \E p \in Files \cup {DirD} :
       /\ fs[p].present
       /\ Edited([fs EXCEPT ![p] = [present |-> FALSE, size |-> 0, mtime |-> 0,
                                    content |-> 0, fault |-> "ok"]])

\* The permissions of an entry change.
EditFault ==
  /\ CanEdit
  /\ \E p \in Entries, f \in Faults :
       /\ fs[p].present
       /\ f # fs[p].fault
       /\ Kind(p) = "other" => f # "read"
       /\ Edited([fs EXCEPT ![p].fault = f])

\* The database file is damaged.
EditCorrupt ==
  /\ CanEdit
  /\ genDone /\ ~db.corrupt
  /\ db' = [db EXCEPT !.corrupt = TRUE]
  /\ edits' = edits + 1
  /\ UNCHANGED <<fs, depth, ignored_patterns, process, poolBound, cmd, pc,
                 idx, txn, report, modified, genDone>>

\* --------------------------------------------------------------- generate
\* main_generate up to the call of dump_info.  `with Pool(...)` raises
\* NameError unless the name Pool is bound: the module never imports it.
main_generate ==
  /\ cmd = "none" /\ pc = "idle"
  /\ cmd' = "generate"
  /\ pc' = IF process # 0 /\ ~poolBound THEN "failed" ELSE "dump_info"
  /\ modified' = FALSE
  /\ idx' = 0
  /\ UNCHANGED <<fs, depth, ignored_patterns, process, poolBound, db,
                 txn, report, edits, genDone>>

\* dump_info: unlink(missing_ok), open the database, begin the transaction.
dump_info_open ==
  /\ pc = "dump_info"
  /\ db' = [corrupt |-> FALSE, data |-> EmptyStore]
  /\ txn' = EmptyStore
  /\ pc' = "dump_loop"
  /\ UNCHANGED <<fs, depth, ignored_patterns, process, poolBound, cmd, idx,
                 report, edits, modified, genDone>>

\* The faulty loop body: the record is written outside the transaction.
dump_info_put_autocommit ==
  /\ pc = "dump_loop"
  /\ ~Listing.raised
  /\ idx < Len(Listing.recs)
  /\ LET info == Listing.recs[idx + 1]
         j == json_dumps(info)
     IN IF j.raised
        THEN /\ pc' = "failed"
             /\ UNCHANGED <<idx, db>>
        ELSE /\ db' = [db EXCEPT !.data = (info.name :> j.text) @@ db.data]
             /\ idx' = idx + 1
             /\ pc' = pc
  /\ UNCHANGED <<fs, depth, ignored_patterns, process, poolBound, cmd, txn,
                 report, edits, modified, genDone>>

\* One turn of dump_info's loop: db[info.name] = json.dumps(info.__dict__).
\* An exception leaves the transaction block, which rolls back.
dump_info_put ==
  /\ pc = "dump_loop"
  /\ ~Listing.raised
  /\ idx < Len(Listing.recs)
  /\ LET info == Listing.recs[idx + 1]
         j == json_dumps(info)
     IN IF j.raised
        THEN /\ txn' = EmptyStore
             /\ pc' = "failed"
             /\ UNCHANGED idx
        ELSE /\ txn' = (info.name :> j.text) @@ txn
             /\ idx' = idx + 1
             /\ pc' = pc
  /\ UNCHANGED <<fs, depth, ignored_patterns, process, poolBound, cmd, db,
                 report, edits, modified, genDone>>

\* The listing raises (the root cannot be listed): rollback, the run aborts.
dump_info_raise ==
  /\ pc = "dump_loop"
  /\ Listing.raised
  /\ txn' = EmptyStore
  /\ pc' = "failed"
  /\ UNCHANGED <<fs, depth, ignored_patterns, process, poolBound, cmd, idx,
                 db, report, edits, modified, genDone>>

\* The listing is exhausted: the transaction commits, the database closes.
dump_info_commit ==
  /\ pc = "dump_loop"
  /\ ~Listing.raised
  /\ idx = Len(Listing.recs)
  /\ db' = [corrupt |-> FALSE, data |-> txn @@ db.data]
  /\ txn' = EmptyStore
  /\ pc' = "done"
  /\ genDone' = TRUE
  /\ UNCHANGED <<fs, depth, ignored_patterns, process, poolBound, cmd, idx,
                 report, edits, modified>>

\* ------------------------------------------------------------------- diff
\* main_diff up to the call of dump_diff (the generators are created, not
\* yet run).  The same NameError as in main_generate.
main_diff ==
  /\ cmd \in {"none", "generate"} /\ pc \in Stopped
  /\ cmd' = "diff"
  /\ pc' = IF process # 0 /\ ~poolBound THEN "failed" ELSE "dump_diff"
  /\ idx' = 0
  /\ UNCHANGED <<fs, depth, ignored_patterns, process, poolBound, db,
                 txn, report, edits, modified, genDone>>

\* dump_diff: out_path.open('w') creates or truncates the report file.
dump_diff_open ==
  /\ pc = "dump_diff"
  /\ report' = [exists |-> TRUE, lines |-> <<>>]
  /\ pc' = "diff_loop"
  /\ UNCHANGED <<fs, depth, ignored_patterns, process, poolBound, cmd, idx,
                 db, txn, edits, modified, genDone>>

\* writelines pulls one fresh record through get_diff.
get_diff_next ==
  /\ pc = "diff_loop"
  /\ ~Listing.raised
  /\ idx < Len(Listing.recs)
  /\ ~db.corrupt
  /\ report' = [report EXCEPT !.lines =
                  writelines(@, get_diff_item(Listing.recs[idx + 1], db.data))]
  /\ idx' = idx + 1
  /\ UNCHANGED <<fs, depth, ignored_patterns, process, poolBound, cmd, pc,
                 db, txn, edits, modified, genDone>>

\* The listing raises, or the lookup in a damaged database does: the
\* exception leaves dump_diff, whose with block closes the report file.
get_diff_raise ==
  /\ pc = "diff_loop"
  /\ \/ Listing.raised
     \/ ~Listing.raised /\ idx < Len(Listing.recs) /\ db.corrupt
  /\ pc' = "failed"
  /\ UNCHANGED <<fs, depth, ignored_patterns, process, poolBound, cmd, idx,
                 db, txn, report, edits, modified, genDone>>

\* The listing is exhausted: the report file is closed.
dump_diff_close ==
  /\ pc = "diff_loop"
  /\ ~Listing.raised
  /\ idx = Len(Listing.recs)
  /\ pc' = "done"
  /\ UNCHANGED <<fs, depth, ignored_patterns, process, poolBound, cmd, idx,
                 db, txn, report, edits, modified, genDone>>

\* The process is killed during the save: the open transaction is lost.
Crash ==
  /\ pc = "dump_loop"
  /\ pc' = "crashed"
  /\ txn' = EmptyStore
  /\ UNCHANGED <<fs, depth, ignored_patterns, process, poolBound, cmd, idx,
                 db, report, edits, modified, genDone>>

Next ==
  \/ EditWrite
  \/ EditCreate
  \/ EditRename
  \/ EditRemove
  \/ EditFault
  \/ EditCorrupt
  \/ main_generate
  \/ dump_info_open
  \/ dump_info_put
  \/ dump_info_raise
  \/ dump_info_commit
  \/ main_diff
  \/ dump_diff_open
  \/ get_diff_next
  \/ get_diff_raise
  \/ dump_diff_close
  \/ Crash

Spec == Init /\ [][Next]_vars

\* =====================================================================
\* Vocabulary of the properties
\* =====================================================================
Range(s) == {s[i] : i \in 1..Len(s)}

Count(x, s) == Cardinality({i \in 1..Len(s) : s[i] = x})

Names(recs) == {recs[i].name : i \in 1..Len(recs)}

\* The record the listing holds for a name.
RecordOf(recs, n) == recs[CHOOSE i \in 1..Len(recs) : recs[i].name = n]

\* The mapping a complete save of recs leaves in the database.
SnapshotOf(recs) ==
  [n \in Names(recs) |->
     LET r == RecordOf(recs, n)
     IN << <<"name", r.name>>, <<"mtime", r.mtime>>,
           <<"size", r.size>>, <<"md5", r.md5>> >>]

\* s is a subsequence of t: s is t with some elements left out.
RECURSIVE IsSubsequence(_, _)
IsSubsequence(s, t) ==
  IF s = <<>> THEN TRUE
  ELSE IF t = <<>> THEN FALSE
  ELSE IF Head(s) = Head(t) THEN IsSubsequence(Tail(s), Tail(t))
  ELSE IsSubsequence(s, Tail(t))

\* The directories strictly between the root and p.
Ancestors(p) == {SubSeq(p, 1, k) : k \in (Len(Root) + 1)..(Len(p) - 1)}

RootListable == fs[Root].present /\ fs[Root].fault = "ok"

\* The traversal comes to look at entry p: p exists and is not ignored, it
\* lies in a directory the scan descends into, and every directory above it
\* was listed.
Reached(p) ==
  /\ RootListable
  /\ Len(p) - Len(Root) <= depth
  /\ fs[p].present /\ ~ignored(p)
  /\ \A a \in Ancestors(p) :
       fs[a].present /\ ~ignored(a) /\ fs[a].fault = "ok"

\* Looking at file p raises an error inside the traversal.
EntryRaises(p) ==
  \/ fs[p].fault = "classify"
  \/ fs[p].fault = "read" /\ ~UsesPool

\* The paths a finished diff run has pulled from the fresh traversal.
InDiff == cmd = "diff" /\ pc \in {"diff_loop", "done", "failed"}

Fresh == SubSeq(Listing.recs, 1, idx)

FreshLines == [i \in 1..Len(Fresh) |-> report_line(Fresh[i])]

\* What the same commands do with inline hashing.
InlineListing == generate_dir_listing(FALSE)

InlineStore ==
  IF InlineListing.raised THEN EmptyStore ELSE SnapshotOf(InlineListing.recs)

RECURSIVE InlineLines(_, _)
InlineLines(recs, data) ==
  IF recs = <<>> THEN <<>>
  ELSE writelines(<<>>, get_diff_item(Head(recs), data))
         \o InlineLines(Tail(recs), data)

InlineDiffFails ==
  \/ InlineListing.raised
  \/ db.corrupt /\ Len(InlineListing.recs) > 0

InlineReportLines ==
  IF InlineDiffFails THEN <<>> ELSE InlineLines(InlineListing.recs, db.data)

\* =====================================================================
\* Properties
\* =====================================================================

\* C1: generate followed by diff against the snapshot just written, with no
\* change of the tree in between, writes an empty report.
C1_GenerateThenDiffEmpty ==
  (cmd = "diff" /\ genDone /\ ~modified) => report.lines = <<>>

\* C1 witness: a diff that compared at least two unchanged stored files.
C1_Witness ==
  /\ cmd = "diff" /\ pc = "done" /\ genDone /\ ~modified
  /\ idx >= 2
  /\ \A i \in 1..idx : Listing.recs[i].name \in DOMAIN db.data
  /\ report.exists /\ report.lines = <<>>
  /\ DOMAIN db.data # {}

\* C2: a stored file whose content changed, together with its size or its
\* mtime, is in the report of a finished diff exactly once.
C2_ModifiedReportedOnce ==
  (cmd = "diff" /\ pc = "done") =>
    \A info \in Range(Listing.recs) :
      LET file == Root \o info.name
      IN (/\ info.name \in DOMAIN db.data
          /\ hexdigest(fs[file].content) # json_loads(db.data[info.name])["md5"]
          /\ \/ info.size # json_loads(db.data[info.name])["size"]
             \/ info.mtime # json_loads(db.data[info.name])["mtime"])
         => Count(report_line(info), report.lines) = 1

\* C3: every fresh record whose name is not a key of the database has its
\* line in the report as soon as get_diff has handled it.
C3_NewFilesReported ==
  InDiff =>
    LET fresh == Fresh
    IN \A i \in 1..Len(fresh) :
         fresh[i].name \notin DOMAIN db.data
           => report_line(fresh[i]) \in Range(report.lines)

\* C3 witness: a finished diff against a non-empty snapshot met a file the
\* snapshot does not hold.
C3_Witness ==
  /\ cmd = "diff" /\ pc = "done" /\ genDone
  /\ DOMAIN db.data # {}
  /\ \E n \in Names(Fresh) : n \notin DOMAIN db.data

\* C4: a command run with worker processes ends as the same command run
\* inline does, with the same database or the same report.
C4_PoolEqualsInline ==
  (process # 0 /\ pc \in {"done", "failed"}) =>
    /\ (cmd = "generate" /\ ~modified) =>
         /\ (pc = "failed") = InlineListing.raised
         /\ db.data = InlineStore
    /\ cmd = "diff" =>
         /\ (pc = "failed") = InlineDiffFails
         /\ report.exists
         /\ report.lines = InlineReportLines

\* C5: with depth 0 a finished generate has stored exactly the regular files
\* that are immediate children of the root.
C5_DepthZeroImmediateFiles ==
  (depth = 0 /\ process = 0 /\ cmd = "generate" /\ pc = "done" /\ ~modified) =>
    DOMAIN db.data =
      {relative_to(p, Root) :
         p \in {q \in Files : /\ Len(q) = Len(Root) + 1
                              /\ fs[q].present /\ ~ignored(q)
                              /\ fs[q].fault = "ok"}}

\* C6: a command never runs to completion when a file the traversal came to
\* hash could not be read.
C6_HashErrorAborts ==
  (pc = "done" /\ (cmd = "diff" \/ ~modified)) =>
    ~\E p \in Files :
       Reached(p) /\ fs[p].fault = "read"

\* C7: a diff that ends with a fatal error has not created the report file.
C7_NoArtifactOnFailure ==
  (cmd = "diff" /\ pc = "failed") => ~report.exists

\* C8: the report is a subsequence of the fresh traversal (same order, no
\* fresh record twice), so a path only the database holds is not in it.
C8_ReportSubsequence ==
  InDiff =>
    /\ IsSubsequence(report.lines, FreshLines)
    /\ \A i, j \in 1..Len(report.lines) :
         report.lines[i] = report.lines[j] => i = j
    /\ LET names == Names(Listing.recs)
       IN \A n \in DOMAIN db.data :
            n \notin names => (Root \o n) \notin Range(report.lines)

\* C8 witness: a finished diff reported something while the database held a
\* file that is gone from the tree.
C8_Witness ==
  /\ cmd = "diff" /\ pc = "done"
  /\ Len(report.lines) >= 1
  /\ \E n \in DOMAIN db.data : ~fs[Root \o n].present

\* C9: an entry whose examination raises yields no record, and every other
\* file the traversal reaches yields exactly one; the traversal itself does
\* not fail as long as the root can be listed.
C9_EntryErrorsSkipped ==
  (pc \in {"dump_loop", "diff_loop"} /\ RootListable) =>
    LET L == Listing
    IN /\ ~L.raised
       /\ Names(L.recs) =
            {relative_to(p, Root) :
               p \in {q \in Files : Reached(q) /\ ~EntryRaises(q)}}
       /\ \A i, j \in 1..Len(L.recs) :
            L.recs[i].name = L.recs[j].name => i = j

\* C9 witness: a finished generate skipped the faulty first entry of the
\* root and stored a file listed after it.
C9_Witness ==
  /\ cmd = "generate" /\ pc = "done" /\ ~modified
  /\ fs[FileA].fault # "ok" /\ ~ignored(FileA)
  /\ relative_to(FileA, Root) \notin DOMAIN db.data
  /\ relative_to(FileN, Root) \in DOMAIN db.data

\* C10: from the start of the save on, whatever happens, the database holds
\* either none of the new records or all of them.
C10_SaveAtomic ==
  (cmd = "generate" /\ pc # "dump_info" /\ ~modified) =>
    \/ DOMAIN db.data = {}
    \/ LET L == Listing IN ~L.raised /\ db.data = SnapshotOf(L.recs)

\* C10 witness: the process died after records were written inside the
\* transaction, and the database holds none of them.
C10_Witness ==
  /\ cmd = "generate" /\ pc = "crashed"
  /\ idx >= 1
  /\ DOMAIN db.data = {}

====
